---- MODULE Spec2Model ----
(***************************************************************************)
(* Model of src/main.py: a FastAPI application over an aiomysql pool.      *)
(*                                                                         *)
(* One lifecycle process (startup hook, serving, shutdown hook) and        *)
(* NumTasks request tasks, each serving one HTTP request.  A task is       *)
(* suspended only at an await that really yields: create_pool, waiting for *)
(* a pool connection, cursor.execute, and the release at the end of the    *)
(* `async with` block.  Each action is the code between two such points.   *)
(*                                                                         *)
(* The handlers modelled are the five shipment handlers.  root makes no    *)
(* database call; listar_repartidores and listar_estados_envio have the    *)
(* shape of listar_envios over tables this API never writes.               *)
(***************************************************************************)
EXTENDS Integers, Sequences, FiniteSets, TLC

\* Number of request tasks (each handles one request).
NumTasks == 2
\* Largest connection-count ceiling (the pool's maxsize) considered: the pool
\* is created with a ceiling between 1 and PoolMaxSize.
PoolMaxSize == 2

Tasks == 1..NumTasks
Main == 0
Procs == {Main} \cup Tasks
\* Connection identities a pool may hand out over its lifetime.
ConnIds == 1..(PoolMaxSize + NumTasks)
\* Shipment ids: one row exists at start, each create adds one.
AllIds == 1..(NumTasks + 1)
\* Ids that requests name in the path: an existing one and an absent one.
ReqIds == {1, 2}

\* EnvioCreate bodies that requests carry (remitente stands for the string
\* fields, fecha_envio for the datetime); they differ from the stored row.
EnvioInputs ==
    { [remitente |-> "B", fecha_envio |-> 2] }
NoEnvio == [remitente |-> "", fecha_envio |-> 0]

VARIABLES
    mainpc,      \* lifecycle: init, create_pool, serving, wait_closed, stopped, failed
    pool,        \* the global `pool`: 0 is None, else an index into pools
    pools,       \* every pool object create_pool has returned
    envios,      \* the shipment table: envios[id] is <<>> or <<row>>
    autoInc,     \* the table's AUTO_INCREMENT counter
    pc,          \* per task: idle, call, create_pool, acquire_wait, exec, fetched, done
    op,          \* per task: the handler serving the request
    req,         \* per task: path id and body of the request
    stmt,        \* per task: query and params of the current ejecutar_consulta call
    pool_obj,    \* per task: the local pool_obj of ejecutar_consulta (0: not yet)
    held,        \* per task: connections checked out by the task
    result,      \* per task: how the last ejecutar_consulta call ended
    outcome,     \* per task: the HTTP response (status 0: none yet)
    createdId,   \* history: the id this request's sp_crear_envio assigned
    wr,          \* history: per task, its statement ran / the row existed then /
                 \*          a later statement wrote the id the request names
    seen         \* history: per lookup, the PUT and DELETE requests on its id that
                 \*          had answered when it arrived, not overwritten since

vars == <<mainpc, pool, pools, envios, autoInc, pc, op, req, stmt, pool_obj,
          held, result, outcome, createdId, wr, seen>>

taskvars == <<pc, op, req, stmt, pool_obj, held, result, outcome>>
dbvars == <<envios, autoInc>>
histvars == <<createdId, wr, seen>>

----------------------------------------------------------------------------
(* Records of the program *)

\* datetime.isoformat(): a string derived from the datetime, not the datetime.
isoformat(d) == <<"iso", d>>

\* A table row as the stored procedures return it (column name -> value).
Row(id, e) == [envio_id |-> id, remitente |-> e.remitente, fecha_envio |-> e.fecha_envio]

\* EnvioOut(**envio_data) after the isoformat conversion.
EnvioOut(row) ==
    [envio_id |-> row.envio_id, remitente |-> row.remitente,
     fecha_envio |-> isoformat(row.fecha_envio)]

\* Envio(envio_id=..., **envio.dict())
Envio(id, e) == [envio_id |-> id, remitente |-> e.remitente, fecha_envio |-> e.fecha_envio]

NoResult == [err |-> FALSE, rows |-> <<>>]
NoOutcome == [status |-> 0, body |-> [none |-> TRUE]]
Ok(b) == [status |-> 200, body |-> b]
\* HTTPException(status_code=404, detail="Envío no encontrado")
NotFound == [status |-> 404, body |-> [detail |-> "Envio no encontrado"]]
\* An exception that leaves the handler: the framework answers 500.
ServerError == [status |-> 500, body |-> [detail |-> "Internal Server Error"]]

NoStmt == [q |-> "", envio |-> NoEnvio, envio_id |-> 0]
NoRequest == [envio_id |-> 0, envio |-> NoEnvio]
NotRun == [ran |-> FALSE, existed |-> FALSE, overwritten |-> FALSE]

----------------------------------------------------------------------------
(* The pool object *)

\* aiomysql.create_pool(...) with ceiling m: one connection is opened at once.
NewPool(m) ==
    [maxsize |-> m, free |-> <<1>>, used |-> {}, closing |-> FALSE, closed |-> FALSE,
     lastInsertId |-> [c \in ConnIds |-> 0]]

FreeSet(P) == {P.free[i] : i \in 1..Len(P.free)}
Size(P) == Len(P.free) + Cardinality(P.used)

\* The pool may open one more connection.
CanCreate_unbounded(P) == TRUE
CanCreate(P) == Size(P) < P.maxsize

FreshConn(P) == CHOOSE c \in ConnIds : c \notin (FreeSet(P) \cup P.used)

\* Taking a connection: the oldest free one, else a newly opened one (a new
\* session, whose LAST_INSERT_ID() is 0).
TakeConn(P) ==
    IF P.free # <<>>
    THEN [conn |-> Head(P.free),
          pool |-> [P EXCEPT !.free = Tail(@), !.used = @ \cup {Head(P.free)}]]
    ELSE LET c == FreshConn(P) IN
         [conn |-> c,
          pool |-> [P EXCEPT !.used = @ \cup {c}, !.lastInsertId[c] = 0]]

\* pool.release(conn): back to the free list, or closed when the pool is closing.
ReleaseConn(P, c) ==
    IF P.closing
    THEN [P EXCEPT !.used = @ \ {c}]
    ELSE [P EXCEPT !.used = @ \ {c}, !.free = Append(@, c)]

RECURSIVE ReleaseAll(_, _)
ReleaseAll(P, cs) ==
    IF cs = {} THEN P
    ELSE LET c == CHOOSE x \in cs : TRUE IN ReleaseAll(ReleaseConn(P, c), cs \ {c})

\* Leaving `async with pool_obj.acquire() as conn`: the connection is released
\* whether the block ended normally or by an exception.
AsyncWithExit_leak_on_error(P, cs, err) == IF err THEN P ELSE ReleaseAll(P, cs)
AsyncWithExit(P, cs, err) == ReleaseAll(P, cs)

----------------------------------------------------------------------------
(* The database: the statements the handlers send *)

RECURSIVE AllRows(_, _)
AllRows(ev, n) == IF n = 0 THEN <<>> ELSE AllRows(ev, n - 1) \o ev[n]

\* CALL sp_listar_envio(): every row.
sp_listar_envio(ev, ai, last) ==
    [envios |-> ev, autoInc |-> ai, insertId |-> last, rows |-> AllRows(ev, NumTasks + 1)]

\* CALL sp_listar_envio_por_id(id): the row with that id, if any.
sp_listar_envio_por_id(ev, ai, last, id) ==
    [envios |-> ev, autoInc |-> ai, insertId |-> last, rows |-> ev[id]]

\* CALL sp_crear_envio(...): inserts a row under the next AUTO_INCREMENT id,
\* which becomes the session's LAST_INSERT_ID().
sp_crear_envio(ev, ai, last, e) ==
    [envios |-> [ev EXCEPT ![ai] = <<Row(ai, e)>>], autoInc |-> ai + 1,
     insertId |-> ai, rows |-> <<>>]

\* CALL sp_actualizar_envio(..., id): updates the row with that id, if any.
sp_actualizar_envio(ev, ai, last, e, id) ==
    [envios |-> IF ev[id] = <<>> THEN ev ELSE [ev EXCEPT ![id] = <<Row(id, e)>>],
     autoInc |-> ai, insertId |-> last, rows |-> <<>>]

\* CALL sp_eliminar_envio(id): deletes the row with that id, if any.
sp_eliminar_envio(ev, ai, last, id) ==
    [envios |-> [ev EXCEPT ![id] = <<>>], autoInc |-> ai, insertId |-> last,
     rows |-> <<>>]

\* SELECT LAST_INSERT_ID(): the session's value, one row.
select_last_insert_id(ev, ai, last) ==
    [envios |-> ev, autoInc |-> ai, insertId |-> last,
     rows |-> << [last_insert_id |-> last] >>]

\* cursor.execute(query, params) on a session whose LAST_INSERT_ID() is last.
RunStatement(s, ev, ai, last) ==
    CASE s.q = "sp_listar_envio" -> sp_listar_envio(ev, ai, last)
      [] s.q = "sp_listar_envio_por_id" -> sp_listar_envio_por_id(ev, ai, last, s.envio_id)
      [] s.q = "sp_crear_envio" -> sp_crear_envio(ev, ai, last, s.envio)
      [] s.q = "sp_actualizar_envio" -> sp_actualizar_envio(ev, ai, last, s.envio, s.envio_id)
      [] s.q = "sp_eliminar_envio" -> sp_eliminar_envio(ev, ai, last, s.envio_id)
      [] s.q = "LAST_INSERT_ID" -> select_last_insert_id(ev, ai, last)

\* The id whose row statement s writes (0: it writes none).
WriteTarget(s, ai) ==
    CASE s.q = "sp_crear_envio" -> ai
      [] s.q \in {"sp_actualizar_envio", "sp_eliminar_envio"} -> s.envio_id
      [] OTHER -> 0

----------------------------------------------------------------------------
(* The handlers.  X_query(rq) is the query and params handler X first      *)
(* passes to ejecutar_consulta for request rq.  X_cont(rq, s, res) is what *)
(* it does once the call for statement s has ended with res (an exception: *)
(* res.err): next is "call" when it goes on to another ejecutar_consulta   *)
(* call, "done" when the request ends.                                     *)

Respond(o) == [next |-> "done", stmt |-> NoStmt, outcome |-> o]
CallNext(s) == [next |-> "call", stmt |-> s, outcome |-> NoOutcome]

MapRows(rows) == [i \in 1..Len(rows) |-> EnvioOut(rows[i])]

listar_envios_query(rq) == [q |-> "sp_listar_envio", envio |-> NoEnvio, envio_id |-> 0]
listar_envios_cont(rq, s, res) ==
    IF res.err THEN Respond(ServerError)
    ELSE Respond(Ok([items |-> MapRows(res.rows)]))

obtener_envio_query(rq) ==
    [q |-> "sp_listar_envio_por_id", envio |-> NoEnvio, envio_id |-> rq.envio_id]
obtener_envio_cont_no_check(rq, s, res) ==
    IF res.err THEN Respond(ServerError)
    ELSE IF res.rows = <<>> THEN Respond(Ok(EnvioOut(Row(rq.envio_id, NoEnvio))))
    ELSE Respond(Ok(EnvioOut(res.rows[1])))
obtener_envio_cont(rq, s, res) ==
    IF res.err THEN Respond(ServerError)
    ELSE IF res.rows = <<>> THEN Respond(NotFound)
    ELSE Respond(Ok(EnvioOut(res.rows[1])))

crear_envio_query(rq) == [q |-> "sp_crear_envio", envio |-> rq.envio, envio_id |-> 0]
last_insert_id_query == [q |-> "LAST_INSERT_ID", envio |-> NoEnvio, envio_id |-> 0]
crear_envio_cont_swallow(rq, s, res) ==
    IF s.q = "sp_crear_envio" THEN CallNext(last_insert_id_query)
    ELSE IF res.err THEN Respond(ServerError)
    ELSE Respond(Ok(Envio(res.rows[1].last_insert_id, rq.envio)))
crear_envio_cont(rq, s, res) ==
    IF res.err THEN Respond(ServerError)
    ELSE IF s.q = "sp_crear_envio" THEN CallNext(last_insert_id_query)
    ELSE Respond(Ok(Envio(res.rows[1].last_insert_id, rq.envio)))

actualizar_envio_query_stale(rq) ==
    [q |-> "sp_actualizar_envio", envio |-> [rq.envio EXCEPT !.remitente = "A"],
     envio_id |-> rq.envio_id]
actualizar_envio_query(rq) ==
    [q |-> "sp_actualizar_envio", envio |-> rq.envio, envio_id |-> rq.envio_id]
actualizar_envio_cont_checked(rq, s, res) ==
    IF res.err THEN Respond(ServerError)
    ELSE IF envios[rq.envio_id] = <<>> THEN Respond(NotFound)
    ELSE Respond(Ok(Envio(rq.envio_id, rq.envio)))
actualizar_envio_cont(rq, s, res) ==
    IF res.err THEN Respond(ServerError)
    ELSE Respond(Ok(Envio(rq.envio_id, rq.envio)))

eliminar_envio_query_other(rq) ==
    [q |-> "sp_eliminar_envio", envio |-> NoEnvio, envio_id |-> rq.envio_id + 1]
eliminar_envio_query(rq) ==
    [q |-> "sp_eliminar_envio", envio |-> NoEnvio, envio_id |-> rq.envio_id]
eliminar_envio_cont(rq, s, res) ==
    IF res.err THEN Respond(ServerError)
    ELSE Respond(Ok([message |-> rq.envio_id]))

FirstQuery(o, rq) ==
    CASE o = "listar_envios" -> listar_envios_query(rq)
      [] o = "obtener_envio" -> obtener_envio_query(rq)
      [] o = "crear_envio" -> crear_envio_query(rq)
      [] o = "actualizar_envio" -> actualizar_envio_query(rq)
      [] o = "eliminar_envio" -> eliminar_envio_query(rq)

Continue(o, rq, s, res) ==
    CASE o = "listar_envios" -> listar_envios_cont(rq, s, res)
      [] o = "obtener_envio" -> obtener_envio_cont(rq, s, res)
      [] o = "crear_envio" -> crear_envio_cont(rq, s, res)
      [] o = "actualizar_envio" -> actualizar_envio_cont(rq, s, res)
      [] o = "eliminar_envio" -> eliminar_envio_cont(rq, s, res)

----------------------------------------------------------------------------
(* Initial state: the module has been imported (pool = None), the database *)
(* holds one shipment (id 1, remitente "A"), no request has arrived.       *)

Init ==
    /\ mainpc = "init"
    /\ pool = 0
    /\ pools = <<>>
    /\ envios = [i \in AllIds |->
                    IF i = 1 THEN <<Row(1, [remitente |-> "A", fecha_envio |-> 1])>>
                    ELSE <<>>]
    /\ autoInc = 2
    /\ pc = [t \in Tasks |-> "idle"]
    /\ op = [t \in Tasks |-> ""]
    /\ req = [t \in Tasks |-> NoRequest]
    /\ stmt = [t \in Tasks |-> NoStmt]
    /\ pool_obj = [t \in Tasks |-> 0]
    /\ held = [t \in Tasks |-> {}]
    /\ result = [t \in Tasks |-> NoResult]
    /\ outcome = [t \in Tasks |-> NoOutcome]
    /\ createdId = [t \in Tasks |-> 0]
    /\ wr = [t \in Tasks |-> NotRun]
    /\ seen = [t \in Tasks |-> {}]

----------------------------------------------------------------------------
(* Lifecycle: startup hook, create_pool, shutdown hook *)

\* startup(): await get_pool(), which finds pool None and awaits create_pool.
\* Requests are served only once the hook has returned.
startup_without_get_pool ==
    /\ mainpc = "init"
    /\ mainpc' = "serving"
    /\ UNCHANGED <<pool, pools, dbvars, taskvars, histvars>>
startup ==
    /\ mainpc = "init"
    /\ mainpc' = IF pool = 0 THEN "create_pool" ELSE "serving"
    /\ UNCHANGED <<pool, pools, dbvars, taskvars, histvars>>

\* get_pool after the await: create_pool has returned a new pool object (of
\* ceiling m), which is assigned to the global and returned to the caller p.
PoolCreated(p, m) ==
    /\ IF p = Main THEN mainpc = "create_pool" ELSE pc[p] = "create_pool"
    /\ pools' = Append(pools, NewPool(m))
    /\ pool' = Len(pools) + 1
    /\ IF p = Main
       THEN /\ mainpc' = "serving"
            /\ UNCHANGED <<pc, pool_obj>>
       ELSE /\ mainpc' = mainpc
            /\ pc' = [pc EXCEPT ![p] = "call"]
            /\ pool_obj' = [pool_obj EXCEPT ![p] = Len(pools) + 1]
    /\ UNCHANGED <<dbvars, op, req, stmt, held, result, outcome, histvars>>

\* create_pool raises inside the startup hook: the application does not start.
StartupFails ==
    /\ mainpc = "create_pool"
    /\ mainpc' = "failed"
    /\ UNCHANGED <<pool, pools, dbvars, taskvars, histvars>>

\* shutdown(): if pool: pool.close(), then wait_closed() closes the free
\* connections and starts waiting for the ones in use.
shutdown ==
    /\ mainpc = "serving"
    /\ IF pool # 0
       THEN /\ pools' = [pools EXCEPT ![pool].closing = TRUE, ![pool].free = <<>>]
            /\ mainpc' = "wait_closed"
       ELSE /\ pools' = pools
            /\ mainpc' = "stopped"
    /\ UNCHANGED <<pool, dbvars, taskvars, histvars>>

\* wait_closed() returns once no connection is in use.  The pool's condition
\* variable wakes its waiters in the order they arrived, so the tasks that
\* were waiting for a connection when close() was called are served first.
AllReleased_no_wait(P) == TRUE
AllReleased(P) == P.used = {}

wait_closed ==
    /\ mainpc = "wait_closed"
    /\ AllReleased(pools[pool])
    /\ \A t \in Tasks : pc[t] # "acquire_wait"
    /\ pools' = [pools EXCEPT ![pool].closed = TRUE]
    /\ mainpc' = "stopped"
    /\ UNCHANGED <<pool, dbvars, taskvars, histvars>>

----------------------------------------------------------------------------
(* Requests *)

\* Task t takes a connection of pool pl.
Acquired(t, pl) ==
    LET got == TakeConn(pools[pl]) IN
    /\ pools' = [pools EXCEPT ![pl] = got.pool]
    /\ held' = [held EXCEPT ![t] = @ \cup {got.conn}]
    /\ pc' = [pc EXCEPT ![t] = "exec"]

\* ejecutar_consulta up to its first suspension: get_pool, then acquire.
\* get_pool on a None pool awaits create_pool; a closing pool refuses the
\* acquire; an exhausted pool makes the task wait.
Enter(t) ==
    LET pl == IF pool_obj[t] # 0 THEN pool_obj[t] ELSE pool IN
    IF pl = 0
    THEN /\ pc' = [pc EXCEPT ![t] = "create_pool"]
         /\ UNCHANGED <<pools, pool_obj, held, result>>
    ELSE /\ pool_obj' = [pool_obj EXCEPT ![t] = pl]
         /\ IF pools[pl].closing
            THEN /\ result' = [result EXCEPT ![t] = [err |-> TRUE, rows |-> <<>>]]
                 /\ pc' = [pc EXCEPT ![t] = "fetched"]
                 /\ UNCHANGED <<pools, held>>
            ELSE IF pools[pl].free # <<>> \/ CanCreate(pools[pl])
            THEN /\ Acquired(t, pl)
                 /\ UNCHANGED result
            ELSE /\ pc' = [pc EXCEPT ![t] = "acquire_wait"]
                 /\ UNCHANGED <<pools, held, result>>

\* The PUT and DELETE requests on id that have answered with success and
\* whose id no later statement has written.
SettledWrites(id) ==
    {u \in Tasks :
        /\ op[u] \in {"actualizar_envio", "eliminar_envio"}
        /\ req[u].envio_id = id
        /\ wr[u].ran /\ ~wr[u].overwritten
        /\ outcome[u].status = 200}

\* A request for handler o arrives: the handler builds its query and calls
\* ejecutar_consulta.  Requests go to the tasks in the order of their arrival.
Begin(t, o, rq) ==
    /\ mainpc = "serving"
    /\ pc[t] = "idle"
    /\ IF t = 1 THEN TRUE ELSE pc[t - 1] # "idle"
    /\ op' = [op EXCEPT ![t] = o]
    /\ req' = [req EXCEPT ![t] = rq]
    /\ stmt' = [stmt EXCEPT ![t] = FirstQuery(o, rq)]
    /\ Enter(t)
    /\ seen' = IF o = "obtener_envio"
               THEN [seen EXCEPT ![t] = SettledWrites(rq.envio_id)]
               ELSE seen
    /\ UNCHANGED <<mainpc, pool, dbvars, outcome, createdId, wr>>

listar_envios(t) == Begin(t, "listar_envios", NoRequest)
obtener_envio(t, id) == Begin(t, "obtener_envio", [envio_id |-> id, envio |-> NoEnvio])
crear_envio(t, e) == Begin(t, "crear_envio", [envio_id |-> 0, envio |-> e])
actualizar_envio(t, id, e) == Begin(t, "actualizar_envio", [envio_id |-> id, envio |-> e])
eliminar_envio(t, id) == Begin(t, "eliminar_envio", [envio_id |-> id, envio |-> NoEnvio])

\* A later ejecutar_consulta call of the handler (after the release of the
\* previous call's connection has yielded), or the call resumed after
\* create_pool.
ejecutar_consulta(t) ==
    /\ pc[t] = "call"
    /\ Enter(t)
    /\ UNCHANGED <<mainpc, pool, dbvars, op, req, stmt, outcome, histvars>>

\* A task waiting in acquire is woken once a connection is free or may be opened.
acquire_wake(t) ==
    /\ pc[t] = "acquire_wait"
    /\ pools[pool_obj[t]].free # <<>> \/ CanCreate(pools[pool_obj[t]])
    /\ Acquired(t, pool_obj[t])
    /\ UNCHANGED <<mainpc, pool, dbvars, op, req, stmt, pool_obj, result, outcome, histvars>>

\* cursor.execute + fetchall on the held connection: the database runs the
\* statement, or the call raises (database or connectivity error).
Execute(t) ==
    /\ pc[t] = "exec"
    /\ pc' = [pc EXCEPT ![t] = "fetched"]
    /\ LET pl == pool_obj[t]
           c == CHOOSE x \in held[t] : TRUE
           r == RunStatement(stmt[t], envios, autoInc, pools[pl].lastInsertId[c])
           w == WriteTarget(stmt[t], autoInc)
       IN  \/ /\ envios' = r.envios
              /\ autoInc' = r.autoInc
              /\ pools' = [pools EXCEPT ![pl].lastInsertId[c] = r.insertId]
              /\ result' = [result EXCEPT ![t] = [err |-> FALSE, rows |-> r.rows]]
              /\ createdId' = IF stmt[t].q = "sp_crear_envio"
                              THEN [createdId EXCEPT ![t] = autoInc]
                              ELSE createdId
              /\ wr' = [u \in Tasks |->
                          IF u = t /\ w # 0
                          THEN [ran |-> TRUE,
                                existed |-> req[t].envio_id # 0 /\ envios[req[t].envio_id] # <<>>,
                                overwritten |-> FALSE]
                          ELSE IF w # 0 /\ wr[u].ran /\ req[u].envio_id = w
                          THEN [wr[u] EXCEPT !.overwritten = TRUE]
                          ELSE wr[u]]
              /\ seen' = IF stmt[t].q = "sp_listar_envio_por_id"
                         THEN [seen EXCEPT ![t] = @ \cap SettledWrites(req[t].envio_id)]
                         ELSE seen
           \/ /\ result' = [result EXCEPT ![t] = [err |-> TRUE, rows |-> <<>>]]
              /\ UNCHANGED <<dbvars, pools, histvars>>
    /\ UNCHANGED <<mainpc, pool, op, req, stmt, pool_obj, held, outcome>>

\* The ejecutar_consulta call ends: the `async with` block is left, and the
\* handler goes on to its next call or to its response.
Return(t) ==
    /\ pc[t] = "fetched"
    /\ LET k == Continue(op[t], req[t], stmt[t], result[t]) IN
       /\ pc' = [pc EXCEPT ![t] = k.next]
       /\ stmt' = [stmt EXCEPT ![t] = k.stmt]
       /\ outcome' = [outcome EXCEPT ![t] = k.outcome]
    /\ pools' = [pools EXCEPT ![pool_obj[t]] = AsyncWithExit(@, held[t], result[t].err)]
    /\ held' = [held EXCEPT ![t] = {}]
    /\ pool_obj' = [pool_obj EXCEPT ![t] = 0]
    /\ UNCHANGED <<mainpc, pool, dbvars, op, req, result, histvars>>

Next ==
    \/ startup
    \/ \E p \in Procs, m \in 1..PoolMaxSize : PoolCreated(p, m)
    \/ StartupFails
    \/ shutdown
    \/ wait_closed
    \/ \E t \in Tasks : listar_envios(t)
    \/ \E t \in Tasks, id \in ReqIds : obtener_envio(t, id)
    \/ \E t \in Tasks, e \in EnvioInputs : crear_envio(t, e)
    \/ \E t \in Tasks, id \in ReqIds, e \in EnvioInputs : actualizar_envio(t, id, e)
    \/ \E t \in Tasks, id \in ReqIds : eliminar_envio(t, id)
    \/ \E t \in Tasks : ejecutar_consulta(t)
    \/ \E t \in Tasks : acquire_wake(t)
    \/ \E t \in Tasks : Execute(t)
    \/ \E t \in Tasks : Return(t)

Spec == Init /\ [][Next]_vars

----------------------------------------------------------------------------
(* Properties *)

InCall(t) == pc[t] \in {"call", "create_pool", "acquire_wait", "exec", "fetched"}
Answered(t) == pc[t] = "done"
PoolIds == 1..Len(pools)

\* The record a lookup returns carries the values of body e.
Carries(body, e) ==
    /\ body.remitente = e.remitente
    /\ body.fecha_envio = isoformat(e.fecha_envio)

\* C1: on a pool holding more than one connection, the envio_id that
\* crear_envio returns is the id of the shipment this request created.
C1_ReturnedIdIsCreatedId ==
    \A t \in Tasks :
        (/\ op[t] = "crear_envio"
         /\ outcome[t].status = 200
         /\ Size(pools[pool]) > 1)
        => outcome[t].body.envio_id = createdId[t]

\* C2: over startup, request handling and shutdown, the pool is created at
\* most once and every get_pool call returns that one pool object.
C2_SinglePool ==
    /\ Len(pools) <= 1
    /\ pool \in {0, 1}
    /\ \A t \in Tasks : pool_obj[t] # 0 => (pool_obj[t] = 1 /\ pool = 1)

C2_Witness ==
    /\ mainpc = "wait_closed"
    /\ \E t \in Tasks, u \in Tasks :
          t # u /\ pool_obj[t] = 1 /\ pool_obj[u] = 1 /\ pc[t] = "exec" /\ pc[u] = "exec"

\* C3: a connection is checked out only by a task whose ejecutar_consulta call
\* is in progress; when no call is in progress, none is checked out, whether
\* the calls ended normally or by an exception.
C3_ConnectionsReleased ==
    /\ \A pl \in PoolIds :
          pools[pl].used = UNION {held[t] : t \in {u \in Tasks : InCall(u) /\ pool_obj[u] = pl}}
    /\ (\A t \in Tasks : ~InCall(t)) =>
          /\ \A pl \in PoolIds : pools[pl].used = {}
          /\ \A t \in Tasks : held[t] = {}

\* An execute that raised while the pool was open, its connection back in the pool.
C3_Witness ==
    /\ mainpc = "serving"
    /\ \A t \in Tasks : ~InCall(t)
    /\ \E t \in Tasks : Answered(t) /\ result[t].err
    /\ \E t \in Tasks : Answered(t) /\ ~result[t].err
    /\ pools[pool].used = {}
    /\ Len(pools[pool].free) > 1

\* C4: obtener_envio whose lookup returns no row answers 404 and no record;
\* it answers a record only when a row exists, and then that row.
C4_NotFoundIffNoRow ==
    \A t \in Tasks :
        (op[t] = "obtener_envio" /\ Answered(t) /\ ~result[t].err) =>
            /\ result[t].rows = <<>> => outcome[t] = NotFound
            /\ result[t].rows # <<>> => outcome[t] = Ok(EnvioOut(result[t].rows[1]))

C4_Witness ==
    \E t \in Tasks, u \in Tasks :
        /\ op[t] = "obtener_envio" /\ Answered(t) /\ outcome[t] = NotFound
        /\ op[u] = "obtener_envio" /\ Answered(u) /\ outcome[u].status = 200

\* C5 as stated: once actualizar_envio on an id has answered, a lookup of
\* that id with no other write to it in between (and no database error)
\* returns a record carrying the values of the PUT.
C5_PutThenGet ==
    \A g \in Tasks :
        (op[g] = "obtener_envio" /\ Answered(g) /\ ~result[g].err) =>
            \A w \in seen[g] :
                op[w] = "actualizar_envio" =>
                    outcome[g].status = 200 /\ Carries(outcome[g].body, req[w].envio)

\* C5 amended: the same, for a PUT on an id whose shipment existed when the
\* update ran.
C5_PutExistingThenGet ==
    \A g \in Tasks :
        (op[g] = "obtener_envio" /\ Answered(g) /\ ~result[g].err) =>
            \A w \in seen[g] :
                (op[w] = "actualizar_envio" /\ wr[w].existed) =>
                    outcome[g].status = 200 /\ Carries(outcome[g].body, req[w].envio)

\* A lookup after an answered PUT that changed the stored values.
C5_Witness ==
    \E g \in Tasks :
        /\ op[g] = "obtener_envio" /\ Answered(g) /\ outcome[g].status = 200
        /\ \E w \in seen[g] :
              /\ op[w] = "actualizar_envio" /\ wr[w].existed
              /\ req[w].envio.remitente = "B"
              /\ outcome[g].body.remitente = "B"

\* C6: once eliminar_envio on an id has answered, a lookup of that id with no
\* other write to it in between (and no database error) answers 404.
C6_DeleteThenGet ==
    \A g \in Tasks :
        (op[g] = "obtener_envio" /\ Answered(g) /\ ~result[g].err) =>
            \A w \in seen[g] :
                op[w] = "eliminar_envio" => outcome[g] = NotFound

\* A lookup after an answered DELETE of a shipment that existed.
C6_Witness ==
    \E g \in Tasks :
        /\ op[g] = "obtener_envio" /\ Answered(g) /\ outcome[g] = NotFound
        /\ \E w \in seen[g] : op[w] = "eliminar_envio" /\ wr[w].existed

\* C7: a request one of whose ejecutar_consulta calls failed ends in the
\* failure outcome and makes no further call (crear_envio does not run
\* SELECT LAST_INSERT_ID() after a failed sp_crear_envio); 404 is answered
\* only by the lookup by id, on an empty result.
C7_ErrorsSurfaced ==
    \A t \in Tasks :
        /\ result[t].err =>
              /\ pc[t] \in {"fetched", "done"}
              /\ Answered(t) => outcome[t] = ServerError
        /\ outcome[t].status = 404 =>
              op[t] = "obtener_envio" /\ ~result[t].err /\ result[t].rows = <<>>
        /\ outcome[t].status = 200 => ~result[t].err

\* crear_envio answered 500 after its sp_crear_envio call raised on an open pool.
C7_Witness ==
    /\ mainpc = "serving"
    /\ \E t \in Tasks :
          /\ op[t] = "crear_envio" /\ Answered(t) /\ outcome[t] = ServerError
          /\ result[t].err /\ createdId[t] = 0

\* C8: once the shutdown hook has finished, the pool is closed and no
\* connection is checked out; a pool never created is left alone.
C8_ShutdownWaits ==
    mainpc = "stopped" =>
        IF pool = 0 THEN pools = <<>>
        ELSE /\ pools[pool].closing /\ pools[pool].closed
             /\ pools[pool].used = {}
             /\ \A t \in Tasks : held[t] = {} /\ pc[t] # "exec"

\* Shutdown has finished after requests were served.
C8_Witness ==
    /\ mainpc = "stopped"
    /\ pool # 0 /\ pools[pool].closed
    /\ \A t \in Tasks : Answered(t)
    /\ \E t \in Tasks : op[t] = "crear_envio" /\ createdId[t] # 0 /\ outcome[t] = ServerError

\* C9: a task holds at most one connection, the connections open and in use
\* never exceed the pool's ceiling, and a task that found the pool exhausted
\* is waiting: it has not failed and holds no connection.
C9_PoolCeiling ==
    /\ \A t \in Tasks : Cardinality(held[t]) <= 1
    /\ \A pl \in PoolIds :
          /\ Size(pools[pl]) <= pools[pl].maxsize
          /\ Cardinality(pools[pl].used) <= pools[pl].maxsize
          /\ Cardinality({t \in Tasks : pool_obj[t] = pl /\ pc[t] = "exec"})
                <= pools[pl].maxsize
    /\ \A t \in Tasks :
          pc[t] = "acquire_wait" =>
              held[t] = {} /\ ~result[t].err /\ outcome[t] = NoOutcome

\* A request waiting on an exhausted pool.
C9_Witness ==
    \E t \in Tasks :
        /\ pc[t] = "acquire_wait"
        /\ Cardinality(pools[pool].used) = pools[pool].maxsize
        /\ ~pools[pool].closing

\* C10: when the stored call succeeds, actualizar_envio answers the id and
\* the echoed input and eliminar_envio answers the confirmation, whether or
\* not the shipment exists; neither makes another call.
C10_NoNotFoundOnWrite ==
    \A t \in Tasks :
        /\ (op[t] = "actualizar_envio" /\ Answered(t) /\ ~result[t].err) =>
              outcome[t] = Ok(Envio(req[t].envio_id, req[t].envio))
        /\ (op[t] = "eliminar_envio" /\ Answered(t) /\ ~result[t].err) =>
              outcome[t] = Ok([message |-> req[t].envio_id])
        /\ op[t] \in {"actualizar_envio", "eliminar_envio"} =>
              stmt[t].q \in {"", "sp_actualizar_envio", "sp_eliminar_envio"}

\* Both answered with success for an id that had no shipment.
C10_Witness ==
    \E t \in Tasks, u \in Tasks :
        /\ op[t] = "actualizar_envio" /\ Answered(t) /\ outcome[t].status = 200
        /\ wr[t].ran /\ ~wr[t].existed
        /\ op[u] = "eliminar_envio" /\ Answered(u) /\ outcome[u].status = 200
        /\ wr[u].ran /\ ~wr[u].existed

====
